---- MODULE Spec2Model ----
(***************************************************************************)
(* A model of bidspm.py, the BIDSPM runner: the container command builder, *)
(* the model path resolver, the SPACE validator, the scratch sweep and the *)
(* processing loop of main().                                              *)
(*                                                                         *)
(* Representation.  A Python string is a sequence of tokens; formatting    *)
(* (an f-string, str(path)) is concatenation.  A pathlib path is the       *)
(* sequence of its parts, an absolute one starting with the part "/".      *)
(* Optional[x] is a set holding at most one value.                         *)
(***************************************************************************)
EXTENDS Integers, Sequences, FiniteSets, TLC

\* ------------------------------------------------------------------ bounds
MaxSubjects == 3
MaxTasks == 2
MaxDepth == 2
MaxRemovals == 1
MaxEntries == 2
MaxFiles == 2
MaxAllocs == 3

\* ---------------------------------------------------------- the universe
Labels == <<"01", "02", "03", "04", "05">>
TaskNames == <<"rest", "nback", "stroop", "faces">>
Subjects == {Labels[i] : i \in 1..MaxSubjects}
TaskList == [i \in 1..MaxTasks |-> TaskNames[i]]
Spaces == {"MNI", "T1w"}

None == {}
Some(x) == {x}
TheValue(opt) == CHOOSE x \in opt : TRUE

\* Python's truth value of an Optional[List]: neither None nor empty.
Truthy(opt) == opt # None /\ Len(TheValue(opt)) > 0

SeqsUpTo(S, n) == UNION {[1..k -> S] : k \in 0..n}

\* ------------------------------------------------------------- strings
Str(tok) == <<tok>>

RECURSIVE JoinParts(_)
\* str(PurePosixPath): the parts joined by "/", the root part "/" not doubled.
JoinParts(parts) ==
    IF Len(parts) = 0 THEN <<>>
    ELSE IF Len(parts) = 1 THEN <<parts[1]>>
    ELSE IF parts[1] = "/" THEN <<"/">> \o JoinParts(Tail(parts))
    ELSE <<parts[1], "/">> \o JoinParts(Tail(parts))

PathStr(p) == IF Len(p) = 0 THEN <<".">> ELSE JoinParts(p)

IsAbsolute(p) == Len(p) > 0 /\ p[1] = "/"

\* Path.__truediv__: an absolute right operand replaces the left one.
PathJoin(p, q) == IF IsAbsolute(q) THEN q ELSE p \o q

\* PurePath.relative_to: the parts of `other` must lead the parts of `p`;
\* the result is Some(remaining parts), or None for ValueError.
relative_to(p, other) ==
    IF Len(other) <= Len(p) /\ SubSeq(p, 1, Len(other)) = other
    THEN Some(SubSeq(p, Len(other) + 1, Len(p)))
    ELSE None

SENTINEL == <<"/", "models", "/", "smdl.json">>

get_container_model_path(model_file_path, derivatives_dir) ==
    LET relative_path == relative_to(model_file_path, derivatives_dir)
    IN  IF relative_path # None
        THEN <<"/", "derivatives", "/">> \o PathStr(TheValue(relative_path))
        ELSE SENTINEL

\* ------------------------------------------------------ command builder
\* f"{host}:{target}"
Bind(host_str, target) == host_str \o <<":">> \o target

ImageIsUrl(image) == Len(image) > 0 /\ image[1] = "docker://"

MutApptainerModelMount(model_file_path, derivatives_dir) ==
    IF relative_to(model_file_path, derivatives_dir \o <<"models">>) # None
    THEN <<>>
    ELSE <<Str("--bind"), Bind(PathStr(model_file_path), SENTINEL)>>

ApptainerModelMount(model_file_path, derivatives_dir) ==
    IF relative_to(model_file_path, derivatives_dir) # None
    THEN <<>>
    ELSE <<Str("--bind"), Bind(PathStr(model_file_path), SENTINEL)>>

DockerModelMount(model_file_path, derivatives_dir) ==
    IF relative_to(model_file_path, derivatives_dir) # None
    THEN <<>>
    ELSE <<Str("-v"), Bind(PathStr(model_file_path), SENTINEL)>>

MutDockerEnvNoTmp ==
    <<Str("-e"), <<"HOME=", "/tmp">>, Str("-e"), <<"TMPDIR=", "/tmp">>>>

DockerEnv ==
    <<Str("-e"), <<"HOME=", "/tmp">>, Str("-e"), <<"TMPDIR=", "/tmp">>,
      Str("-e"), <<"TMP=", "/tmp">>>>

ApptainerCacheBinds(wd) ==
    <<Str("--bind"), Bind(PathStr(wd \o <<"atlas">>), <<"/opt/spm12/atlas">>),
      Str("--bind"), Bind(PathStr(wd \o <<"cpp_roi_atlas">>), <<"/home/neuro/bidspm/lib/CPP_ROI/atlas">>),
      Str("--bind"), Bind(PathStr(wd \o <<"error_logs">>), <<"/home/neuro/bidspm/error_logs">>),
      Str("--bind"), Bind(PathStr(wd \o <<"spm">>), <<"/home/neuro/spm">>),
      Str("--bind"), Bind(PathStr(wd \o <<"matlab_cache">>), <<"/home/neuro/.matlab">>)>>

ApptainerEnv ==
    <<Str("--env"), <<"HOME=", "/tmp">>, Str("--env"), <<"TMPDIR=", "/tmp">>,
      Str("--env"), <<"TMP=", "/tmp">>,
      Str("--env"), <<"MATLAB_LOG_DIR=", "/tmp">>,
      Str("--env"), <<"SPM_HTML_BROWSER=", "0">>,
      Str("--env"), <<"BIDSPM_SKIP_ATLAS_INIT=", "1">>,
      Str("--env"), <<"OCTAVE_EXECUTABLE=", "/usr/bin/octave">>,
      Str("--env"), <<"MATLABPATH=", "/home/neuro/bidspm:/home/neuro/bidspm/lib/CPP_ROI:/home/neuro/bidspm/lib/CPP_ROI/atlas:/opt/spm12">>,
      Str("--env"), <<"CPP_ROI_SKIP_ATLAS=", "1">>,
      Str("--env"), <<"OCTAVE_INIT_FILE=", "/tmp/octave_init.m">>,
      Str("--env"), <<"OCTAVE_SITE_INITFILE=", "/tmp/octave_compat/octaverc">>>>

\* f"run_{timestamp}_{random}": stamp stands for the timestamp and the
\* random number together.
RunName(stamp) == <<"run_", stamp>>

\* build_container_command.  The environment's part in it is passed in:
\* image_exists (Path(apptainer_image).exists()), run_name (the name the
\* timestamp and random.randint give the scratch directory) and mkdir_ok
\* (whether every mkdir of the call succeeds).  status is "ok" (cmd
\* returned), "log_error" (log_error: sys.exit(1)) or "exception" (mkdir
\* raised OSError, which nothing catches).
build_container_command(container_config, config, args, model_file_path, image_exists, run_name, mkdir_ok) ==
    LET run_tmp_dir == PathStr(config.WD \o <<"tmp">>) \o <<"/">> \o run_name
    IN
    IF container_config.container_type = "docker" THEN
        IF container_config.docker_image = <<>>
        THEN [status |-> "log_error", cmd |-> <<>>, made |-> {}]
        ELSE IF ~mkdir_ok
        THEN [status |-> "exception", cmd |-> <<>>, made |-> {}]
        ELSE [status |-> "ok",
              cmd |-> <<Str("docker"), Str("run"), Str("--rm"),
                        Str("-v"), Bind(PathStr(config.BIDS_DIR), <<"/raw">>),
                        Str("-v"), Bind(PathStr(config.DERIVATIVES_DIR), <<"/derivatives">>),
                        Str("-v"), Bind(run_tmp_dir, <<"/tmp">>)>>
                      \o DockerModelMount(model_file_path, config.DERIVATIVES_DIR)
                      \o DockerEnv
                      \o <<container_config.docker_image>>
                      \o args,
              made |-> {run_name}]
    ELSE IF container_config.container_type = "apptainer" THEN
        IF container_config.apptainer_image = <<>>
        THEN [status |-> "log_error", cmd |-> <<>>, made |-> {}]
        ELSE IF ~ImageIsUrl(container_config.apptainer_image) /\ ~image_exists
        THEN [status |-> "log_error", cmd |-> <<>>, made |-> {}]
        ELSE IF ~mkdir_ok
        THEN [status |-> "exception", cmd |-> <<>>, made |-> {}]
        ELSE [status |-> "ok",
              cmd |-> <<Str("apptainer"), Str("run"), Str("--containall"),
                        Str("--writable-tmpfs"), Str("--cleanenv"),
                        Str("--bind"), Bind(PathStr(config.BIDS_DIR), <<"/raw">>),
                        Str("--bind"), Bind(PathStr(config.DERIVATIVES_DIR), <<"/derivatives">>)>>
                      \o ApptainerModelMount(model_file_path, config.DERIVATIVES_DIR)
                      \o <<Str("--bind"), Bind(run_tmp_dir, <<"/tmp">>)>>
                      \o ApptainerCacheBinds(config.WD)
                      \o ApptainerEnv
                      \o <<container_config.apptainer_image>>
                      \o args,
              made |-> {run_name}]
    ELSE [status |-> "log_error", cmd |-> <<>>, made |-> {}]

\* ------------------------------------------------------ SPACE validator
\* A file below the fMRIPrep root: the subject directory it lies under
\* (dir) and the entities of its name, sub-<sub>_task-<task>[_space-<space>]
\* _desc-<desc>, where desc stands for the rest of the name from "_desc-".
\* Path.rglob(pattern) of "sub-{label}_*task-{task}_*space-*_desc-preproc_bold.nii.gz"
\* below subject_dir.
MutRglobAnyTask(bold_files, subject_label, task) ==
    {f \in bold_files : /\ f.dir = subject_label
                        /\ f.sub = subject_label
                        /\ f.space # None
                        /\ f.desc = "preproc_bold.nii.gz"}

rglob(bold_files, subject_label, task) ==
    {f \in bold_files : /\ f.dir = subject_label
                        /\ f.sub = subject_label
                        /\ f.task = task
                        /\ f.space # None
                        /\ f.desc = "preproc_bold.nii.gz"}

\* re.search(r'space-([^_]+)', bold_file.name): Some(group(1)) or None.
space_match(f) == f.space

RECURSIVE ValidateLoop(_, _, _, _, _, _)
\* The for loop of validate_space_availability over subjects_to_process,
\* from position i, with the accumulators of the code.
ValidateLoop(config, subjects, task, fs, i, acc) ==
    IF i > Len(subjects) THEN acc
    ELSE
      LET subject_label == subjects[i]
      IN  IF subject_label \notin fs.subject_dirs
          THEN ValidateLoop(config, subjects, task, fs, i + 1,
                   [acc EXCEPT !.missing_subjects = Append(@, subject_label)])
          ELSE
            LET matched == {f \in rglob(fs.bold_files, subject_label, task) : space_match(f) # None}
                subject_spaces == {TheValue(space_match(f)) : f \in matched}
                space_found == \E f \in matched : TheValue(space_match(f)) = config.SPACE
            IN  ValidateLoop(config, subjects, task, fs, i + 1,
                   [acc EXCEPT
                      !.available_spaces = @ \cup subject_spaces,
                      !.found_subjects = IF space_found THEN Append(@, subject_label) ELSE @,
                      !.missing_subjects = IF space_found THEN @ ELSE Append(@, subject_label)])

\* validate_space_availability: ok is the value returned, missing_subjects
\* and available_spaces what the failure report prints.
validate_space_availability(config, subjects_to_process, task, fs) ==
    LET acc == ValidateLoop(config, subjects_to_process, task, fs, 1,
                   [found_subjects |-> <<>>, missing_subjects |-> <<>>, available_spaces |-> {}])
    IN  [ok |-> acc.missing_subjects = <<>>,
         missing_subjects |-> acc.missing_subjects,
         found_subjects |-> acc.found_subjects,
         available_spaces |-> acc.available_spaces]

\* --------------------------------------------------------- scratch sweep
\* An entry of WD/tmp: its name (a token sequence), whether it is a
\* directory, its age in seconds at the sweep (current_time - st_mtime).
StartsWithRun(name) == Len(name) > 0 /\ name[1] = "run_"

SECONDS_PER_HOUR == 3600
DEFAULT_MAX_AGE_HOURS == 24

MutSweepCandidatesInclusive(entries, max_age_hours) ==
    {e \in entries : /\ e.is_dir
                     /\ StartsWithRun(e.name)
                     /\ e.age >= max_age_hours * SECONDS_PER_HOUR}

\* The entries the sweep tries to remove.
SweepCandidates(entries, max_age_hours) ==
    {e \in entries : /\ e.is_dir
                     /\ StartsWithRun(e.name)
                     /\ e.age > max_age_hours * SECONDS_PER_HOUR}

\* cleanup_tmp_directories: the entries of WD/tmp left after the sweep.
\* tmp_exists is tmp_base_dir.exists(); undeletable are the entries on
\* which shutil.rmtree raises (caught, logged, skipped).
cleanup_tmp_directories(tmp_exists, entries, max_age_hours, undeletable) ==
    IF ~tmp_exists THEN entries
    ELSE entries \ (SweepCandidates(entries, max_age_hours) \ undeletable)

\* ------------------------------------------------------- tool arguments
smooth_args(config, subject_label, task) ==
    <<Str("/derivatives/fmriprep"), Str("/derivatives"), Str("subject"), Str("smooth"),
      Str("--participant_label"), Str(subject_label),
      Str("--task"), Str(task),
      Str("--space"), Str(config.SPACE),
      Str("--fwhm"), Str(config.FWHM),
      Str("--verbosity"), Str(config.VERBOSITY)>>

stats_args(config, subject_label, task, container_model_path) ==
    <<Str("/raw"), Str("/derivatives"), Str("subject"), Str("stats"),
      Str("--preproc_dir"), Str("/derivatives/bidspm-preproc"),
      Str("--model_file"), container_model_path,
      Str("--participant_label"), Str(subject_label),
      Str("--task"), Str(task),
      Str("--space"), Str(config.SPACE),
      Str("--fwhm"), Str(config.FWHM),
      Str("--verbosity"), Str(config.VERBOSITY)>>

MutDatasetArgsWithLabel(config, task, container_model_path) ==
    <<Str("/raw"), Str("/derivatives"), Str("dataset"), Str("stats"),
      Str("--model_file"), container_model_path,
      Str("--participant_label"), Str("01"),
      Str("--task"), Str(task),
      Str("--space"), Str(config.SPACE),
      Str("--fwhm"), Str(config.FWHM),
      Str("--verbosity"), Str(config.VERBOSITY)>>

dataset_args(config, task, container_model_path) ==
    <<Str("/raw"), Str("/derivatives"), Str("dataset"), Str("stats"),
      Str("--preproc_dir"), Str("/derivatives/bidspm-preproc"),
      Str("--model_file"), container_model_path,
      Str("--task"), Str(task),
      Str("--space"), Str(config.SPACE),
      Str("--fwhm"), Str(config.FWHM),
      Str("--verbosity"), Str(config.VERBOSITY)>>

\* ---------------------------------------------------------------- state
VARIABLES
    config,              \* the Config record load_config returns
    config_doc,          \* what is wrong with the configuration document ("none": nothing)
    container_config,    \* the ContainerConfig record (its document before the load)
    args,                \* the parsed command line: pilot, model
    host,                \* the host: subject directories, BOLD files, images, WD/tmp
    pc,                  \* the position of main()
    task_idx,            \* index into config.TASKS of the task in process
    subject_idx,         \* index into subjects_to_process of the subject in process
    subjects_to_process, \* the subject list of the task in process
    model_file_path,     \* the resolved model path
    LOG_FILE,            \* the global log file name
    logged,              \* the log files that have received an entry
    cmd,                 \* the last command build_container_command returned
    success,             \* the last value run_command returned
    invocations,         \* the container invocations run, in order
    runtime_procs,       \* container-runtime processes started that are no invocation
    task_log,            \* per task: subject list, validation result, notices, subjects processed
    exit_status,         \* None while running, Some(status) once the process has ended
    removals,            \* subject directories that vanished during the run
    call,                \* the arguments of a function applied on its own
    ret                  \* what it returned

vars == <<config, config_doc, container_config, args, host, pc, task_idx, subject_idx, subjects_to_process, model_file_path, LOG_FILE, logged, cmd, success, invocations, runtime_procs, task_log, exit_status, removals, call, ret>>

\* What a run never changes once main() has started.
inputs == <<config, config_doc, container_config, args, call, ret>>

WD == <<"/", "wd">>
BIDS_DIR == <<"/", "data", "raw">>
DERIVATIVES_DIR == <<"/", "data", "derivatives">>
FMRIPREP_DIR == <<"/", "data", "derivatives", "fmriprep">>

DEFAULT_LOG_FILE == <<"run_bidspm.log">>

\* Path(name).stem: the name without its last suffix.
stem(name) ==
    CASE name = "smdl.json" -> "smdl"
      [] name = "cli.json" -> "cli"
      [] OTHER -> name

\* generate_log_filename: the model file's stem, "_", the timestamp, ".log".
generate_log_filename(models_file_name, timestamp) ==
    <<stem(models_file_name), "_", timestamp, ".log">>

EmptyTaskLog ==
    [i \in 1..MaxTasks |-> [subjects |-> <<>>, validation |-> "none", missing |-> <<>>, notices |-> 0, processed |-> <<>>]]

BaseConfig ==
    [WD |-> WD, BIDS_DIR |-> BIDS_DIR, DERIVATIVES_DIR |-> DERIVATIVES_DIR,
     FMRIPREP_DIR |-> FMRIPREP_DIR, SPACE |-> "MNI", FWHM |-> "8",
     SMOOTH |-> TRUE, STATS |-> TRUE, DATASET |-> TRUE,
     MODELS_FILE |-> Some(<<"smdl.json">>), TASKS |-> TaskList,
     SUBJECTS |-> None, VERBOSITY |-> "0"]

DockerOk == [container_type |-> "docker", docker_image |-> <<"cpplab/bidspm:latest">>, apptainer_image |-> <<>>]
ApptainerUrl == [container_type |-> "apptainer", docker_image |-> <<>>, apptainer_image |-> <<"docker://", "cpplab/bidspm:latest">>]
ApptainerSif == [container_type |-> "apptainer", docker_image |-> <<>>, apptainer_image |-> <<"/", "img", "/", "bidspm.sif">>]
DockerNoImage == [container_type |-> "docker", docker_image |-> <<>>, apptainer_image |-> <<"docker://", "cpplab/bidspm:latest">>]
ApptainerNoImage == [container_type |-> "apptainer", docker_image |-> <<"cpplab/bidspm:latest">>, apptainer_image |-> <<>>]
Podman == [container_type |-> "podman", docker_image |-> <<"cpplab/bidspm:latest">>, apptainer_image |-> <<>>]

\* The BOLD file of a subject and task in a space, in the subject's directory.
BoldFile(s, t, sp) == [dir |-> s, sub |-> s, task |-> t, space |-> Some(sp), desc |-> "preproc_bold.nii.gz"]

\* The subject lists a configuration may carry: the prefixes of Labels.
SubjectLists == {SubSeq(Labels, 1, n) : n \in 0..MaxSubjects}

\* The orders a host lists the subject directories in: by label, or reversed.
Listings == {SubSeq(Labels, 1, MaxSubjects), [i \in 1..MaxSubjects |-> Labels[MaxSubjects + 1 - i]]}

\* The BOLD files of a host: every subject with a directory has one file
\* per task, in the configured space except for the pairs in `lacking`.
HostFiles(dirs, lacking) ==
    {BoldFile(s, TaskList[i], IF <<s, i>> \in lacking THEN "T1w" ELSE "MNI") : s \in dirs, i \in 1..MaxTasks}

BaseHost(dirs, lacking) ==
    [subject_dirs |-> dirs, listing |-> SubSeq(Labels, 1, MaxSubjects), bold_files |-> HostFiles(dirs, lacking),
     image_exists |-> TRUE, model_exists |-> TRUE, model_valid |-> TRUE, runtime_installed |-> TRUE,
     tmp_exists |-> FALSE, tmp_entries |-> {}, stamps |-> {"20250721_143022_1000"}]

\* The state before main() has done anything.
InitIdle ==
    /\ task_idx = 0
    /\ subject_idx = 0
    /\ subjects_to_process = <<>>
    /\ model_file_path = <<>>
    /\ LOG_FILE = DEFAULT_LOG_FILE
    /\ logged = {}
    /\ cmd = <<>>
    /\ success = TRUE
    /\ invocations = <<>>
    /\ runtime_procs = 0
    /\ task_log = EmptyTaskLog
    /\ exit_status = None
    /\ removals = 0

InitRun ==
    /\ InitIdle
    /\ pc = "load_config"
    /\ call = <<>>
    /\ ret = <<>>

\* The subject directories a host has: all of them, all but one, or none.
DirSets == {Subjects} \cup {Subjects \ {s} : s \in Subjects} \cup {{}}

\* Runs that differ in what the loop meets: the action flags, pilot mode,
\* the subject allowlist, the subject directories, the spaces on disk (at
\* most one subject and task lack the configured one, one of the first
\* two subjects) and, where the subjects are discovered, the order the
\* host lists them in.
InitLoop ==
    /\ InitRun
    /\ config_doc = "none"
    /\ container_config = DockerOk
    /\ \E pilot \in BOOLEAN : args = [pilot |-> pilot, model |-> None]
    /\ \E smooth \in BOOLEAN, stats \in BOOLEAN, dataset \in BOOLEAN, subjects \in {None} \cup {Some(l) : l \in SubjectLists} :
          config = [BaseConfig EXCEPT !.SMOOTH = smooth, !.STATS = stats, !.DATASET = dataset, !.SUBJECTS = subjects]
    /\ \E dirs \in DirSets :
          \E lacking \in {{}} \cup {{p} : p \in (dirs \cap {Labels[1], Labels[2]}) \X (1..MaxTasks)} :
              \E listing \in (IF args.pilot \/ Truthy(config.SUBJECTS) THEN {SubSeq(Labels, 1, MaxSubjects)} ELSE Listings) :
                  host = [BaseHost(dirs, lacking) EXCEPT !.listing = listing]

\* Runs that differ in what startup meets: the documents, the backend, the
\* model reference, the files and programs present on the host.
InitStartup ==
    /\ InitRun
    /\ config_doc \in {"none", "missing_field", "bad_tasks", "bad_dir"}
    /\ container_config \in {DockerOk, ApptainerUrl, ApptainerSif, DockerNoImage, ApptainerNoImage, Podman}
    /\ \E model \in {None, Some(<<"cli.json">>)} : args = [pilot |-> FALSE, model |-> model]
    /\ \E smooth \in BOOLEAN, stats \in BOOLEAN, dataset \in BOOLEAN, models_file \in {None, Some(<<"smdl.json">>), Some(<<"/", "ext", "smdl.json">>)} :
          config = [BaseConfig EXCEPT !.SMOOTH = smooth, !.STATS = stats, !.DATASET = dataset, !.MODELS_FILE = models_file]
    /\ \E image_exists \in BOOLEAN, model_exists \in BOOLEAN, model_valid \in BOOLEAN, runtime_installed \in BOOLEAN :
          host = [BaseHost(Subjects, {}) EXCEPT !.image_exists = image_exists, !.model_exists = model_exists, !.model_valid = model_valid, !.runtime_installed = runtime_installed]

Init == InitLoop \/ InitStartup

\* -------------------------------------------------------------- helpers
CurrentTask == config.TASKS[task_idx]
CurrentSubject == subjects_to_process[subject_idx]

\* log_error: the message is logged, then sys.exit(1).
LogErrorExit ==
    /\ pc' = "exited"
    /\ exit_status' = Some(1)
    /\ logged' = logged \cup {LOG_FILE}

\* An exception nothing catches: the traceback, then exit status 1.
UncaughtException ==
    /\ pc' = "crashed"
    /\ exit_status' = Some(1)
    /\ logged' = logged

MutAdvanceTaskBreak ==
    /\ task_idx' = task_idx + 1
    /\ pc' = "cleanup"

\* The end of one pass of "for task in config.TASKS".
AdvanceTask ==
    /\ task_idx' = task_idx + 1
    /\ pc' = IF task_idx < Len(config.TASKS) THEN "select" ELSE "cleanup"

\* ------------------------------------------------------------- startup
\* load_config and load_container_config.
LoadConfigs ==
    /\ pc = "load_config"
    /\ IF config_doc # "none" \/ container_config.container_type \notin {"docker", "apptainer"}
       THEN LogErrorExit
       ELSE pc' = "setup_octave" /\ UNCHANGED <<exit_status, logged>>
    /\ UNCHANGED <<inputs, host, task_idx, subject_idx, subjects_to_process, model_file_path, LOG_FILE, cmd, success, invocations, runtime_procs, task_log, removals>>

\* log("Setting up Octave compatibility...") and setup_octave_compatibility:
\* for apptainer, "apptainer exec <image> bash -c ..." is started when the
\* program is installed; its result is ignored.
SetupOctave ==
    /\ pc = "setup_octave"
    /\ logged' = logged \cup {LOG_FILE}
    /\ runtime_procs' = IF container_config.container_type = "apptainer" /\ host.runtime_installed
                        THEN runtime_procs + 1 ELSE runtime_procs
    /\ pc' = "resolve_model"
    /\ UNCHANGED <<inputs, host, task_idx, subject_idx, subjects_to_process, model_file_path, LOG_FILE, cmd, success, invocations, task_log, exit_status, removals>>

\* The model reference resolved to a host path (main, "Determine model file path").
resolve_model_file_path(model_arg, models_file, derivatives_dir) ==
    IF model_arg # None
    THEN IF IsAbsolute(TheValue(model_arg)) THEN TheValue(model_arg)
         ELSE PathJoin(derivatives_dir \o <<"models">>, TheValue(model_arg))
    ELSE IF models_file # None /\ IsAbsolute(TheValue(models_file)) THEN TheValue(models_file)
         ELSE PathJoin(derivatives_dir \o <<"models">>, TheValue(models_file))

\* From "Validate MODELS_FILE or -m" to the model file's existence check.
ResolveModel ==
    /\ pc = "resolve_model"
    /\ IF args.model = None /\ config.MODELS_FILE = None
       THEN LogErrorExit /\ UNCHANGED <<model_file_path, LOG_FILE>>
       ELSE LET path == resolve_model_file_path(args.model, config.MODELS_FILE, config.DERIVATIVES_DIR)
            IN  /\ model_file_path' = path
                /\ \E timestamp \in host.stamps : LOG_FILE' = generate_log_filename(path[Len(path)], timestamp)
                /\ IF ~host.runtime_installed \/ ~host.model_exists
                   THEN /\ pc' = "exited"
                        /\ exit_status' = Some(1)
                        /\ logged' = logged \cup {LOG_FILE'}
                   ELSE /\ pc' = "validate_model"
                        /\ logged' = logged \cup {LOG_FILE'}
                        /\ UNCHANGED exit_status
    /\ UNCHANGED <<inputs, host, task_idx, subject_idx, subjects_to_process, cmd, success, invocations, runtime_procs, task_log, removals>>

\* run_command on validate_bids_model.py, its result dropped; the path
\* validations repeat load_config's and cannot fail.
\* The exit status of "python3 validate_bids_model.py <model>": 1 when the
\* model is invalid or the validation itself fails, else 0.
validate_json(model_valid) == IF model_valid THEN 0 ELSE 1

\* What run_command returns for a process that ended with returncode.
run_command(returncode) == returncode = 0

MutValidateModelFatal ==
    /\ pc = "validate_model"
    /\ logged' = logged \cup {LOG_FILE}
    /\ IF run_command(validate_json(host.model_valid))
       THEN task_idx' = 1 /\ pc' = "select" /\ UNCHANGED exit_status
       ELSE task_idx' = task_idx /\ pc' = "exited" /\ exit_status' = Some(1)
    /\ UNCHANGED <<inputs, host, subject_idx, subjects_to_process, model_file_path, LOG_FILE, cmd, success, invocations, runtime_procs, task_log, removals>>

ValidateModel ==
    /\ pc = "validate_model"
    /\ logged' = logged \cup {LOG_FILE}
    /\ LET validated == run_command(validate_json(host.model_valid))
       IN  task_idx' = 1
    /\ pc' = "select"
    /\ UNCHANGED <<inputs, host, subject_idx, subjects_to_process, model_file_path, LOG_FILE, cmd, success, invocations, runtime_procs, task_log, exit_status, removals>>

\* ------------------------------------------------------ processing loop
\* config.FMRIPREP_DIR.glob("sub-*") filtered by is_dir(): the labels of the
\* subject directories, in the order the host lists them.
discover_subjects(h) == SelectSeq(h.listing, LAMBDA s : s \in h.subject_dirs)

MutPilotChoicesAll(all_subjects) == {all_subjects}

\* [random.choice(all_subjects)]: the lists pilot mode may come to.
pilot_choices(all_subjects) == {<<all_subjects[k]>> : k \in 1..Len(all_subjects)}

\* "Get list of subjects to process".
SelectSubjects ==
    /\ pc = "select"
    /\ IF args.pilot
       THEN LET all_subjects == IF Truthy(config.SUBJECTS) THEN TheValue(config.SUBJECTS) ELSE discover_subjects(host)
            IN  IF Len(all_subjects) = 0
                THEN LogErrorExit /\ UNCHANGED <<subjects_to_process, task_log>>
                ELSE \E chosen \in pilot_choices(all_subjects) :
                       /\ subjects_to_process' = chosen
                       /\ task_log' = [task_log EXCEPT ![task_idx].subjects = chosen]
                       /\ pc' = "validate_space"
                       /\ logged' = logged \cup {LOG_FILE}
                       /\ UNCHANGED exit_status
       ELSE LET subjects == IF Truthy(config.SUBJECTS) THEN TheValue(config.SUBJECTS) ELSE discover_subjects(host)
            IN  /\ subjects_to_process' = subjects
                /\ task_log' = [task_log EXCEPT ![task_idx].subjects = subjects]
                /\ pc' = "validate_space"
                /\ logged' = logged \cup {LOG_FILE}
                /\ UNCHANGED exit_status
    /\ UNCHANGED <<inputs, host, task_idx, subject_idx, model_file_path, LOG_FILE, cmd, success, invocations, runtime_procs, removals>>

\* "Validate SPACE availability before processing".
ValidateSpace ==
    /\ pc = "validate_space"
    /\ LET r == validate_space_availability(config, subjects_to_process, CurrentTask, host)
       IN  IF r.ok
           THEN /\ task_log' = [task_log EXCEPT ![task_idx].validation = "pass"]
                /\ subject_idx' = 1
                /\ pc' = "subject"
                /\ UNCHANGED task_idx
           ELSE /\ task_log' = [task_log EXCEPT ![task_idx].validation = "fail", ![task_idx].missing = r.missing_subjects]
                /\ AdvanceTask
                /\ UNCHANGED subject_idx
    /\ logged' = logged \cup {LOG_FILE}
    /\ UNCHANGED <<inputs, host, subjects_to_process, model_file_path, LOG_FILE, cmd, success, invocations, runtime_procs, exit_status, removals>>

\* "for subject_label in subjects_to_process" is exhausted.
MutSubjectsDoneNeedsSuccess ==
    /\ pc = "subject"
    /\ subject_idx > Len(subjects_to_process)
    /\ IF success /\ subjects_to_process # <<>>
       THEN pc' = "dataset" /\ UNCHANGED task_idx
       ELSE AdvanceTask
    /\ UNCHANGED <<inputs, host, subject_idx, subjects_to_process, model_file_path, LOG_FILE, logged, cmd, success, invocations, runtime_procs, task_log, exit_status, removals>>

SubjectsDone ==
    /\ pc = "subject"
    /\ subject_idx > Len(subjects_to_process)
    /\ pc' = "dataset"
    /\ UNCHANGED <<inputs, host, task_idx, subject_idx, subjects_to_process, model_file_path, LOG_FILE, logged, cmd, success, invocations, runtime_procs, task_log, exit_status, removals>>

\* The subject has no directory: the warning, then continue.
SkipSubject ==
    /\ pc = "subject"
    /\ subject_idx <= Len(subjects_to_process)
    /\ CurrentSubject \notin host.subject_dirs
    /\ task_log' = [task_log EXCEPT ![task_idx].notices = @ + 1]
    /\ subject_idx' = subject_idx + 1
    /\ logged' = logged \cup {LOG_FILE}
    /\ UNCHANGED <<inputs, host, pc, task_idx, subjects_to_process, model_file_path, LOG_FILE, cmd, success, invocations, runtime_procs, exit_status, removals>>

\* The subject has a directory: its steps follow.
EnterSubject ==
    /\ pc = "subject"
    /\ subject_idx <= Len(subjects_to_process)
    /\ CurrentSubject \in host.subject_dirs
    /\ task_log' = [task_log EXCEPT ![task_idx].processed = Append(@, CurrentSubject)]
    /\ pc' = "smooth"
    /\ logged' = logged \cup {LOG_FILE}
    /\ UNCHANGED <<inputs, host, task_idx, subject_idx, subjects_to_process, model_file_path, LOG_FILE, cmd, success, invocations, runtime_procs, exit_status, removals>>

\* The directory entry of WD/tmp that run_tmp_dir.mkdir(parents=True,
\* exist_ok=True) leaves: a new one unless the name is taken.
MkdirScratch(h, run_name) ==
    [h EXCEPT !.tmp_exists = TRUE,
              !.tmp_entries = IF \E e \in @ : e.name = run_name THEN @
                              ELSE @ \cup {[name |-> run_name, is_dir |-> TRUE, age |-> 0]}]

\* cmd = build_container_command(...) in main: on log_error the process
\* exits, on an exception of mkdir it dies, else the command is held.
Build(tool_args, next_pc) ==
    \E stamp \in host.stamps, mkdir_ok \in BOOLEAN :
       LET b == build_container_command(container_config, config, tool_args, model_file_path, host.image_exists, RunName(stamp), mkdir_ok)
       IN  IF b.status = "ok"
           THEN /\ cmd' = b.cmd
                /\ host' = MkdirScratch(host, RunName(stamp))
                /\ pc' = next_pc
                /\ logged' = logged \cup {LOG_FILE}
                /\ UNCHANGED exit_status
           ELSE IF b.status = "log_error"
           THEN LogErrorExit /\ UNCHANGED <<cmd, host>>
           ELSE UncaughtException /\ UNCHANGED <<cmd, host>>

MutRunRaisesOnFailure(scope, subject, action, next_pc) ==
    \E ok \in BOOLEAN :
       /\ success' = ok
       /\ invocations' = Append(invocations, [task |-> CurrentTask, scope |-> scope, subject |-> subject, action |-> action])
       /\ logged' = logged \cup {LOG_FILE}
       /\ pc' = IF ok THEN next_pc ELSE "crashed"

MutRunRetriesOnFailure(scope, subject, action, next_pc) ==
    \E ok \in BOOLEAN :
       /\ success' = ok
       /\ invocations' = Append(invocations, [task |-> CurrentTask, scope |-> scope, subject |-> subject, action |-> action])
       /\ logged' = logged \cup {LOG_FILE}
       /\ pc' = IF ok \/ Len(invocations) > 3 THEN next_pc ELSE pc

\* success = run_command(cmd): the container runs and exits with either status.
Run(scope, subject, action, next_pc) ==
    \E ok \in BOOLEAN :
       /\ success' = ok
       /\ invocations' = Append(invocations, [task |-> CurrentTask, scope |-> scope, subject |-> subject, action |-> action])
       /\ logged' = logged \cup {LOG_FILE}
       /\ pc' = next_pc

SkipSmooth ==
    /\ pc = "smooth"
    /\ ~config.SMOOTH
    /\ pc' = "stats"
    /\ UNCHANGED <<inputs, host, task_idx, subject_idx, subjects_to_process, model_file_path, LOG_FILE, logged, cmd, success, invocations, runtime_procs, task_log, exit_status, removals>>

BuildSmooth ==
    /\ pc = "smooth"
    /\ config.SMOOTH
    /\ Build(smooth_args(config, CurrentSubject, CurrentTask), "run_smooth")
    /\ UNCHANGED <<inputs, task_idx, subject_idx, subjects_to_process, model_file_path, LOG_FILE, success, invocations, runtime_procs, task_log, removals>>

RunSmooth ==
    /\ pc = "run_smooth"
    /\ Run("subject", Some(CurrentSubject), "smooth", "stats")
    /\ UNCHANGED <<inputs, host, task_idx, subject_idx, subjects_to_process, model_file_path, LOG_FILE, cmd, runtime_procs, task_log, exit_status, removals>>

MutSkipStatsAfterFailure ==
    /\ pc = "stats"
    /\ ~config.STATS \/ ~success
    /\ pc' = "subject"
    /\ subject_idx' = subject_idx + 1
    /\ UNCHANGED <<inputs, host, task_idx, subjects_to_process, model_file_path, LOG_FILE, logged, cmd, success, invocations, runtime_procs, task_log, exit_status, removals>>

SkipStats ==
    /\ pc = "stats"
    /\ ~config.STATS
    /\ pc' = "subject"
    /\ subject_idx' = subject_idx + 1
    /\ UNCHANGED <<inputs, host, task_idx, subjects_to_process, model_file_path, LOG_FILE, logged, cmd, success, invocations, runtime_procs, task_log, exit_status, removals>>

BuildStats ==
    /\ pc = "stats"
    /\ config.STATS
    /\ Build(stats_args(config, CurrentSubject, CurrentTask, get_container_model_path(model_file_path, config.DERIVATIVES_DIR)), "run_stats")
    /\ UNCHANGED <<inputs, task_idx, subject_idx, subjects_to_process, model_file_path, LOG_FILE, success, invocations, runtime_procs, task_log, removals>>

MutRunStatsThenSmooth ==
    /\ pc = "run_stats"
    /\ Run("subject", Some(CurrentSubject), "stats", IF Len(invocations) > 3 THEN "subject" ELSE "smooth")
    /\ subject_idx' = IF Len(invocations) > 3 THEN subject_idx + 1 ELSE subject_idx
    /\ UNCHANGED <<inputs, host, task_idx, subjects_to_process, model_file_path, LOG_FILE, cmd, runtime_procs, task_log, exit_status, removals>>

RunStats ==
    /\ pc = "run_stats"
    /\ Run("subject", Some(CurrentSubject), "stats", "subject")
    /\ subject_idx' = subject_idx + 1
    /\ UNCHANGED <<inputs, host, task_idx, subjects_to_process, model_file_path, LOG_FILE, cmd, runtime_procs, task_log, exit_status, removals>>

SkipDataset ==
    /\ pc = "dataset"
    /\ ~config.DATASET
    /\ AdvanceTask
    /\ UNCHANGED <<inputs, host, subject_idx, subjects_to_process, model_file_path, LOG_FILE, logged, cmd, success, invocations, runtime_procs, task_log, exit_status, removals>>

BuildDataset ==
    /\ pc = "dataset"
    /\ config.DATASET
    /\ Build(dataset_args(config, CurrentTask, get_container_model_path(model_file_path, config.DERIVATIVES_DIR)), "run_dataset")
    /\ UNCHANGED <<inputs, task_idx, subject_idx, subjects_to_process, model_file_path, LOG_FILE, success, invocations, runtime_procs, task_log, removals>>

RunDataset ==
    /\ pc = "run_dataset"
    /\ \E ok \in BOOLEAN :
          /\ success' = ok
          /\ invocations' = Append(invocations, [task |-> CurrentTask, scope |-> "dataset", subject |-> None, action |-> "stats"])
          /\ logged' = logged \cup {LOG_FILE}
    /\ AdvanceTask
    /\ UNCHANGED <<inputs, host, subject_idx, subjects_to_process, model_file_path, LOG_FILE, cmd, runtime_procs, task_log, exit_status, removals>>

\* cleanup_tmp_directories(config), then the summary line; main returns.
Cleanup ==
    /\ pc = "cleanup"
    /\ \E undeletable \in SUBSET SweepCandidates(host.tmp_entries, DEFAULT_MAX_AGE_HOURS) :
          host' = [host EXCEPT !.tmp_entries = cleanup_tmp_directories(host.tmp_exists, @, DEFAULT_MAX_AGE_HOURS, undeletable)]
    /\ pc' = "done"
    /\ exit_status' = Some(0)
    /\ logged' = logged \cup {LOG_FILE}
    /\ UNCHANGED <<inputs, task_idx, subject_idx, subjects_to_process, model_file_path, LOG_FILE, cmd, success, invocations, runtime_procs, task_log, removals>>

\* The host, not the program: the directory of the subject about to be
\* checked vanishes (nothing locks the derivatives tree, and the container
\* has it mounted read-write).  It happens during the first task; the
\* later tasks meet the tree it leaves.
RemoveSubjectDir ==
    /\ pc = "subject"
    /\ removals < MaxRemovals
    /\ task_idx = 1
    /\ subject_idx <= Len(subjects_to_process)
    /\ CurrentSubject \in host.subject_dirs
    /\ host' = [host EXCEPT !.subject_dirs = @ \ {CurrentSubject},
                            !.bold_files = {f \in @ : f.dir # CurrentSubject}]
    /\ removals' = removals + 1
    /\ UNCHANGED <<inputs, pc, task_idx, subject_idx, subjects_to_process, model_file_path, LOG_FILE, logged, cmd, success, invocations, runtime_procs, task_log, exit_status>>

Next ==
    \/ LoadConfigs \/ SetupOctave \/ ResolveModel \/ ValidateModel
    \/ SelectSubjects \/ ValidateSpace
    \/ SubjectsDone \/ SkipSubject \/ EnterSubject
    \/ SkipSmooth \/ BuildSmooth \/ RunSmooth
    \/ SkipStats \/ BuildStats \/ RunStats
    \/ SkipDataset \/ BuildDataset \/ RunDataset
    \/ Cleanup
    \/ RemoveSubjectDir

Spec == Init /\ [][Next]_vars

\* ---------------------------------------- the functions applied on their own
\* validate_space_availability on any candidate list, directories and files.
ValSubjects == {Labels[1], Labels[2]}
ValTasks == {TaskNames[1], TaskNames[2]}

FileUniverse(dirs) ==
    [dir : dirs, sub : ValSubjects, task : ValTasks,
     space : {None} \cup {Some(sp) : sp \in Spaces},
     desc : {"preproc_bold.nii.gz", "boldref.nii.gz"}]

RECURSIVE SubsetsUpTo(_, _)
\* The subsets of S of at most n members.
SubsetsUpTo(S, n) ==
    IF n = 0 THEN {{}}
    ELSE LET smaller == SubsetsUpTo(S, n - 1)
         IN  smaller \cup {x \cup {e} : x \in smaller, e \in S}

InitValidate ==
    /\ InitIdle
    /\ pc = "call_validate"
    /\ config_doc = "none"
    /\ container_config = DockerOk
    /\ args = [pilot |-> FALSE, model |-> None]
    /\ config = BaseConfig
    /\ \E dirs \in SUBSET ValSubjects :
          \E files \in SubsetsUpTo(FileUniverse(dirs), MaxFiles) :
              host = [BaseHost(dirs, {}) EXCEPT !.bold_files = files]
    /\ \E subjects \in SeqsUpTo(ValSubjects, 2), task \in {TaskNames[1]} :
          call = [subjects |-> subjects, task |-> task]
    /\ ret = <<>>

ApplyValidate ==
    /\ pc = "call_validate"
    /\ ret' = validate_space_availability(config, call.subjects, call.task, host)
    /\ pc' = "returned"
    /\ UNCHANGED <<config, config_doc, container_config, args, host, task_idx, subject_idx, subjects_to_process, model_file_path, LOG_FILE, logged, cmd, success, invocations, runtime_procs, task_log, exit_status, removals, call>>

SpecValidate == InitValidate /\ [][ApplyValidate]_vars

\* The model reference resolved and the command built, for any derivatives
\* root and model reference.
Segments == {"data", "derivatives", "models", "smdl.json", ".."}
RelPaths == SeqsUpTo(Segments, MaxDepth) \ {<<>>}
AbsPaths == {<<"/">> \o p : p \in SeqsUpTo(Segments, MaxDepth)}

InitResolve ==
    /\ InitIdle
    /\ pc = "call_resolve"
    /\ config_doc = "none"
    /\ container_config \in {DockerOk, ApptainerUrl}
    /\ \E ref \in AbsPaths \cup RelPaths, by_arg \in BOOLEAN, derivatives_dir \in AbsPaths \cup RelPaths :
          /\ args = [pilot |-> FALSE, model |-> IF by_arg THEN Some(ref) ELSE None]
          /\ config = [BaseConfig EXCEPT !.DERIVATIVES_DIR = derivatives_dir, !.MODELS_FILE = IF by_arg THEN None ELSE Some(ref)]
    /\ host = BaseHost(Subjects, {})
    /\ call = [subject_label |-> Labels[1], task |-> TaskNames[1]]
    /\ ret = <<>>

ApplyResolve ==
    /\ pc = "call_resolve"
    /\ model_file_path' = resolve_model_file_path(args.model, config.MODELS_FILE, config.DERIVATIVES_DIR)
    /\ pc' = "call_build"
    /\ UNCHANGED <<inputs, host, task_idx, subject_idx, subjects_to_process, LOG_FILE, logged, cmd, success, invocations, runtime_procs, task_log, exit_status, removals>>

\* The stats step's two calls: get_container_model_path, then build_container_command.
ApplyBuild ==
    /\ pc = "call_build"
    /\ LET container_model_path == get_container_model_path(model_file_path, config.DERIVATIVES_DIR)
       IN  /\ ret' = container_model_path
           /\ \E stamp \in host.stamps :
                 LET b == build_container_command(container_config, config, stats_args(config, call.subject_label, call.task, container_model_path), model_file_path, host.image_exists, RunName(stamp), TRUE)
                 IN  cmd' = b.cmd /\ host' = MkdirScratch(host, RunName(stamp))
    /\ pc' = "returned"
    /\ UNCHANGED <<config, config_doc, container_config, args, task_idx, subject_idx, subjects_to_process, model_file_path, LOG_FILE, logged, success, invocations, runtime_procs, task_log, exit_status, removals, call>>

SpecResolve == InitResolve /\ [][ApplyResolve \/ ApplyBuild]_vars

\* cleanup_tmp_directories on any content of WD/tmp and any max_age_hours.
Ages == {-1, 0, 1, 3599, 3600, 3601, 86400, 86401}
EntryNames == {<<"run_", "20250720_101500_1234">>, <<"run_", "20250721_143022_1000">>, <<"octave_compat">>}
EntryUniverse == [name : EntryNames, is_dir : BOOLEAN, age : Ages]

InitSweep ==
    /\ InitIdle
    /\ pc = "call_sweep"
    /\ config_doc = "none"
    /\ container_config = DockerOk
    /\ args = [pilot |-> FALSE, model |-> None]
    /\ config = BaseConfig
    /\ \E entries \in {x \in SubsetsUpTo(EntryUniverse, MaxEntries) : \A e1, e2 \in x : e1.name = e2.name => e1 = e2} :
          \E tmp_exists \in (IF entries = {} THEN BOOLEAN ELSE {TRUE}) :
              host = [BaseHost(Subjects, {}) EXCEPT !.tmp_exists = tmp_exists, !.tmp_entries = entries]
    /\ \E max_age_hours \in {0, 1, DEFAULT_MAX_AGE_HOURS} : call = [max_age_hours |-> max_age_hours]
    /\ ret = <<>>

ApplySweep ==
    /\ pc = "call_sweep"
    /\ \E undeletable \in SUBSET SweepCandidates(host.tmp_entries, call.max_age_hours) :
          /\ host' = [host EXCEPT !.tmp_entries = cleanup_tmp_directories(host.tmp_exists, @, call.max_age_hours, undeletable)]
          /\ ret' = [before |-> host.tmp_entries, undeletable |-> undeletable]
    /\ pc' = "returned"
    /\ UNCHANGED <<config, config_doc, container_config, args, task_idx, subject_idx, subjects_to_process, model_file_path, LOG_FILE, logged, cmd, success, invocations, runtime_procs, task_log, exit_status, removals, call>>

SpecSweep == InitSweep /\ [][ApplySweep]_vars

\* -------------------------------------------------- scratch allocation
\* The scratch directories build_container_command allocates for a row of
\* invocations that share one working directory.  A name is the second of
\* datetime.now() and the number random.randint(1000, 9999) gives; the
\* table holds, per second, two of the names possible in it.
StampTable ==
    << {"20250721_143022_1000", "20250721_143022_1001"},
       {"20250721_143023_1000", "20250721_143023_1001"},
       {"20250721_143024_1000", "20250721_143024_1001"} >>

\* Directories earlier runs left in WD/tmp.
StaleEntries == {[name |-> <<"run_", "20250720_101500_1234">>, is_dir |-> TRUE, age |-> 86401]}

InitScratch ==
    /\ InitIdle
    /\ pc = "call_allocate"
    /\ config_doc = "none"
    /\ container_config \in {DockerOk, ApptainerUrl}
    /\ args = [pilot |-> FALSE, model |-> None]
    /\ config = BaseConfig
    /\ \E stale \in SUBSET StaleEntries :
          host = [BaseHost(Subjects, {}) EXCEPT !.stamps = StampTable[1], !.tmp_exists = stale # {}, !.tmp_entries = stale]
    /\ call = [clock |-> 1]
    /\ ret = <<>>

\* One call of build_container_command: ret records the scratch path it
\* mounted and whether the directory was there before the call.
AllocateScratch ==
    /\ pc = "call_allocate"
    /\ Len(ret) < MaxAllocs
    /\ \E stamp \in host.stamps, scope \in {"subject", "dataset"} :
          LET tool_args == IF scope = "subject" THEN smooth_args(config, Labels[1], TaskNames[1])
                           ELSE dataset_args(config, TaskNames[1], SENTINEL)
              b == build_container_command(container_config, config, tool_args, SENTINEL, host.image_exists, RunName(stamp), TRUE)
          IN  /\ cmd' = b.cmd
              /\ ret' = Append(ret, [name |-> RunName(stamp), existed |-> \E e \in host.tmp_entries : e.name = RunName(stamp)])
              /\ host' = MkdirScratch(host, RunName(stamp))
    /\ UNCHANGED <<config, config_doc, container_config, args, pc, task_idx, subject_idx, subjects_to_process, model_file_path, LOG_FILE, logged, success, invocations, runtime_procs, task_log, exit_status, removals, call>>

\* A second passes between two calls.
Tick ==
    /\ pc = "call_allocate"
    /\ call.clock < Len(StampTable)
    /\ call' = [call EXCEPT !.clock = @ + 1]
    /\ host' = [host EXCEPT !.stamps = StampTable[call.clock + 1]]
    /\ UNCHANGED <<config, config_doc, container_config, args, pc, task_idx, subject_idx, subjects_to_process, model_file_path, LOG_FILE, logged, cmd, success, invocations, runtime_procs, task_log, exit_status, removals, ret>>

SpecScratch == InitScratch /\ [][AllocateScratch \/ Tick]_vars

\* ============================================================ properties
Terminated == exit_status # None
TaskFinished(t) == task_idx > t
InvocationsOf(t) == {i \in 1..Len(invocations) : invocations[i].task = config.TASKS[t]}
Range(seq) == {seq[i] : i \in 1..Len(seq)}

\* A preprocessed BOLD file of subject s and the task in the wanted space,
\* by the naming convention.
HasMatchingFile(s, task, space) ==
    \E f \in host.bold_files :
        f.dir = s /\ f.sub = s /\ f.task = task /\ f.desc = "preproc_bold.nii.gz" /\ f.space = Some(space)

\* C1: validate_space_availability returns True exactly when every candidate
\* subject has a preprocessed BOLD file of that subject and task whose space
\* tag is config.SPACE, and on False the missing subjects it reports are
\* exactly the candidates without such a file.
C1_ValidatorIffEverySubjectMatches ==
    pc = "returned" =>
        /\ ret.ok <=> \A s \in Range(call.subjects) : HasMatchingFile(s, call.task, config.SPACE)
        /\ ~ret.ok => Range(ret.missing_subjects) = {s \in Range(call.subjects) : ~HasMatchingFile(s, call.task, config.SPACE)}

C1_Witness ==
    /\ pc = "returned"
    /\ ~ret.ok
    /\ Len(call.subjects) = 2
    /\ Len(ret.missing_subjects) = 1
    /\ ret.missing_subjects[1] \in host.subject_dirs
    /\ ret.found_subjects # <<>>
    /\ ret.available_spaces = {"MNI", "T1w"}

\* C2: a smoothing invocation that exits non-zero hands control to the stats
\* step of the same subject and task, whose invocation is what runs next;
\* a stats invocation that exits non-zero hands control to the next
\* subject.  Neither failure ends the run.
C2_FailureIsolated ==
    [][/\ (pc = "run_smooth" /\ ~success')
          => /\ pc' = "stats" /\ task_idx' = task_idx /\ subject_idx' = subject_idx
             /\ subjects_to_process' = subjects_to_process /\ exit_status' = None
       /\ (pc = "stats" /\ config.STATS /\ pc' = "run_stats")
          => task_idx' = task_idx /\ subject_idx' = subject_idx
       /\ (pc = "stats" /\ config.STATS /\ pc' \notin {"stats", "run_stats"})
          => pc' \in {"exited", "crashed"} /\ invocations' = invocations
       /\ (pc = "run_stats" /\ pc' # "run_stats")
          => invocations' = Append(invocations, [task |-> CurrentTask, scope |-> "subject", subject |-> Some(CurrentSubject), action |-> "stats"])
       /\ (pc = "run_stats" /\ ~success')
          => /\ pc' = "subject" /\ task_idx' = task_idx /\ subject_idx' = subject_idx + 1
             /\ subjects_to_process' = subjects_to_process /\ exit_status' = None
      ]_vars

C2_Witness ==
    /\ pc = "run_stats"
    /\ ~success
    /\ subject_idx < Len(subjects_to_process)
    /\ invocations # <<>>
    /\ invocations[Len(invocations)] = [task |-> CurrentTask, scope |-> "subject", subject |-> Some(CurrentSubject), action |-> "smooth"]

\* C3: of a candidate set of three subjects of which exactly one has no
\* directory, the task processes the other two and gives exactly one
\* "subject directory not found" notice.
C3_MissingDirectorySkipsOneSubject ==
    \A t \in 1..MaxTasks :
        (/\ TaskFinished(t)
         /\ removals = 0
         /\ Cardinality(Range(task_log[t].subjects)) = 3
         /\ Len(task_log[t].subjects) = 3
         /\ Cardinality(Range(task_log[t].subjects) \ host.subject_dirs) = 1)
        => /\ task_log[t].notices = 1
           /\ Range(task_log[t].processed) = Range(task_log[t].subjects) \cap host.subject_dirs

\* C4: with SMOOTH, STATS and DATASET all true and the subjects discovered,
\* a run that ends with no failed space validation and no directory notice
\* has run exactly T * (2 * S + 1) invocations, whatever their exit status.
C4_InvocationCount ==
    (/\ pc = "done"
     /\ config.SMOOTH /\ config.STATS /\ config.DATASET
     /\ ~args.pilot /\ ~Truthy(config.SUBJECTS)
     /\ \A t \in 1..Len(config.TASKS) : task_log[t].validation = "pass" /\ task_log[t].notices = 0)
    => Len(invocations) = Len(config.TASKS) * (2 * Cardinality(host.subject_dirs) + 1)

C4_Witness ==
    /\ pc = "done"
    /\ config.SMOOTH /\ config.STATS /\ config.DATASET
    /\ ~args.pilot /\ config.SUBJECTS = None
    /\ \A t \in 1..Len(config.TASKS) : task_log[t].validation = "pass" /\ task_log[t].notices = 0
    /\ Len(config.TASKS) = 2 /\ Cardinality(host.subject_dirs) = 3
    /\ Len(invocations) = 14
    /\ ~success

\* C5: a run that has passed startup ends only after all tasks are
\* processed, the scratch sweep is done and the summary line is printed.
C5_RunReachesSummary ==
    (task_idx >= 1 /\ Terminated) => (pc = "done" /\ task_idx = Len(config.TASKS) + 1 /\ exit_status = Some(0))

\* C6: a task whose space validation fails runs no invocation, the failure
\* does not end the run, and the loop goes on to the next task (every task
\* of a run that ends normally has been validated).
C6_ValidationFailureSkipsTaskOnly ==
    /\ [](\A t \in 1..MaxTasks : task_log[t].validation = "fail" => InvocationsOf(t) = {})
    /\ [](pc = "done" => \A t \in 1..Len(config.TASKS) : task_log[t].validation # "none")
    /\ [][(pc = "validate_space" /\ task_log'[task_idx].validation = "fail")
          => /\ exit_status' = None
             /\ invocations' = invocations
             /\ task_idx' = task_idx + 1
             /\ pc' = IF task_idx < Len(config.TASKS) THEN "select" ELSE "cleanup"]_vars

C6_Witness ==
    /\ Len(config.TASKS) >= 2
    /\ task_log[1].validation = "fail"
    /\ task_log[2].validation = "pass"
    /\ InvocationsOf(2) # {}
    /\ pc = "done"

\* The cmd elements that bind something to the sentinel model path.
ModelMounts == {i \in 1..Len(cmd) : Len(cmd[i]) > 5 /\ SubSeq(cmd[i], Len(cmd[i]) - 4, Len(cmd[i])) = <<":">> \o SENTINEL}
LiesUnder(p, root) == \E n \in 0..Len(p) : SubSeq(p, 1, n) = root

\* C7: a model path under the derivatives root is seen in the container as
\* "/derivatives/" plus the path without the root, and the command has no
\* model mount; any other model path is seen as "/models/smdl.json" and the
\* command has exactly one mount, of the host model path to that path.
C7_ModelPathAndMountAgree ==
    pc = "returned" =>
        IF LiesUnder(model_file_path, config.DERIVATIVES_DIR)
        THEN /\ ret = <<"/", "derivatives", "/">> \o PathStr(SubSeq(model_file_path, Len(config.DERIVATIVES_DIR) + 1, Len(model_file_path)))
             /\ ModelMounts = {}
        ELSE /\ ret = SENTINEL
             /\ Cardinality(ModelMounts) = 1
             /\ \A i \in ModelMounts :
                   /\ cmd[i] = PathStr(model_file_path) \o <<":">> \o SENTINEL
                   /\ cmd[i - 1] = IF container_config.container_type = "docker" THEN <<"-v">> ELSE <<"--bind">>

C7_Witness ==
    /\ pc = "returned"
    /\ container_config.container_type = "apptainer"
    /\ ret = SENTINEL
    /\ Cardinality(ModelMounts) = 1
    /\ Len(model_file_path) > Len(config.DERIVATIVES_DIR)

ScratchDirs(entries) == {e \in entries : e.is_dir /\ StartsWithRun(e.name)}

\* C9 as stated: the sweep with max_age 0 leaves no scratch subdirectory, and
\* with max_age above every age removes none.
C9_SweepZeroRemovesAll ==
    pc = "returned" =>
        /\ call.max_age_hours = 0 => ScratchDirs(host.tmp_entries) = {}
        /\ (\A e \in ScratchDirs(ret.before) : call.max_age_hours * SECONDS_PER_HOUR > e.age) => host.tmp_entries = ret.before

\* C9 as amended: the sweep with max_age 0 removes every scratch subdirectory
\* whose age is above zero and whose removal does not fail, and nothing
\* else; with max_age not below any scratch subdirectory's age it removes
\* nothing.
C9_SweepZeroRemovesOlderThanZero ==
    pc = "returned" =>
        /\ call.max_age_hours = 0 =>
              host.tmp_entries = {e \in ret.before : ~(e \in ScratchDirs(ret.before) /\ e.age > 0 /\ e \notin ret.undeletable)}
        /\ (\A e \in ScratchDirs(ret.before) : call.max_age_hours * SECONDS_PER_HOUR >= e.age) => host.tmp_entries = ret.before

C9_Witness ==
    /\ pc = "returned"
    /\ call.max_age_hours = 0
    /\ \E e \in ScratchDirs(ret.before) : e.age = 1 /\ e \notin host.tmp_entries
    /\ \E e \in ScratchDirs(ret.before) : e.age = 0 /\ e \in host.tmp_entries

BadBackend ==
    \/ container_config.container_type \notin {"docker", "apptainer"}
    \/ container_config.container_type = "docker" /\ container_config.docker_image = <<>>
    \/ /\ container_config.container_type = "apptainer"
       /\ \/ container_config.apptainer_image = <<>>
          \/ ~ImageIsUrl(container_config.apptainer_image) /\ ~host.image_exists

\* C10: with an empty image reference, a missing local Apptainer image or an
\* unsupported backend, the run ends with status 1 and has started no
\* invocation and no container-runtime process.
C10_BadBackendAbortsBeforeAnyProcess ==
    BadBackend =>
        /\ invocations = <<>>
        /\ runtime_procs = 0
        /\ Terminated => exit_status = Some(1)

\* The subject list of task t has been determined.
Selected(t) == t < task_idx \/ (t = task_idx /\ pc \notin {"select", "exited"})

\* C11: a failure to create the scratch directory or the cache directories
\* of an invocation, like a failure of the Octave setup, is a warning: no
\* run is ended by an error nothing handles.
C11_SetupFailuresRecoverable == pc # "crashed"

\* The image reference of the selected backend and the tool arguments that
\* follow it in cmd.
Image == IF container_config.container_type = "docker" THEN container_config.docker_image ELSE container_config.apptainer_image
ImagePos == CHOOSE i \in 1..Len(cmd) : cmd[i] = Image
ToolArgs == SubSeq(cmd, ImagePos + 1, Len(cmd))
AtRun == pc \in {"run_smooth", "run_stats", "run_dataset"}
HasFlag(a, flag, value) == \E i \in 5..(Len(a) - 1) : a[i] = <<flag>> /\ a[i + 1] = value
FlagCount(a, flag) == Cardinality({i \in 5..Len(a) : a[i] = <<flag>>})
StepScope == IF pc = "run_dataset" THEN "dataset" ELSE "subject"
StepAction == IF pc = "run_smooth" THEN "smooth" ELSE "stats"

\* The named flags every tool argument vector carries after the four
\* positional arguments.
NamedFlagsRight(a) ==
    /\ Len(a) >= 4
    /\ a[2] = <<"/derivatives">>
    /\ a[3] = <<StepScope>>
    /\ a[4] = <<StepAction>>
    /\ HasFlag(a, "--task", <<CurrentTask>>) /\ FlagCount(a, "--task") = 1
    /\ HasFlag(a, "--space", <<config.SPACE>>) /\ FlagCount(a, "--space") = 1
    /\ HasFlag(a, "--fwhm", <<config.FWHM>>) /\ FlagCount(a, "--fwhm") = 1
    /\ HasFlag(a, "--verbosity", <<config.VERBOSITY>>) /\ FlagCount(a, "--verbosity") = 1
    /\ IF StepScope = "subject"
       THEN HasFlag(a, "--participant_label", <<CurrentSubject>>) /\ FlagCount(a, "--participant_label") = 1
       ELSE FlagCount(a, "--participant_label") = 0

\* C12 as stated: every tool argument vector begins with the raw root, the
\* derivatives root, the scope and the action, followed by the named flags,
\* the subject label present exactly for the subject scope.
C12_ArgsBeginWithRawRoot ==
    AtRun => ToolArgs[1] = <<"/raw">> /\ NamedFlagsRight(ToolArgs)

\* C12 as amended: every tool argument vector begins with the input root
\* (the fMRIPrep derivatives for smooth, the raw root for stats), the
\* derivatives root, the scope and the action, followed by the named flags,
\* the subject label present exactly for the subject scope.
C12_ArgsBeginWithInputRoot ==
    AtRun =>
        /\ ToolArgs[1] = IF StepAction = "smooth" THEN <<"/derivatives/fmriprep">> ELSE <<"/raw">>
        /\ NamedFlagsRight(ToolArgs)

C12_Witness ==
    /\ pc = "run_dataset"
    /\ container_config.container_type = "apptainer"
    /\ ToolArgs[3] = <<"dataset">>
    /\ FlagCount(ToolArgs, "--participant_label") = 0
    /\ \E i \in 1..Len(invocations) : invocations[i].action = "smooth"

\* C13: outside pilot mode the subject list of every task is the allowlist
\* when the configuration carries one, and the subject directories found
\* under the fMRIPrep root only when it carries none.
C13_AllowlistBeforeDiscovery ==
    ~args.pilot =>
        \A t \in 1..MaxTasks :
            (Selected(t) /\ removals = 0) =>
                task_log[t].subjects = IF config.SUBJECTS # None THEN TheValue(config.SUBJECTS) ELSE discover_subjects(host)

\* C14: with SUBJECTS an empty list no invocation of the subject scope
\* (smoothing or subject-level stats) is run in any task.
C14_EmptyAllowlistProcessesNone ==
    config.SUBJECTS = Some(<<>>) => \A i \in 1..Len(invocations) : invocations[i].scope # "subject"

\* The log file names a run can be given: the stem of a model file name,
\* the start timestamp.
RunLogFiles == {generate_log_filename(n, ts) : n \in {"smdl.json", "cli.json"}, ts \in host.stamps}

\* C15: every log entry of a run is in one file, and once the run has
\* its log file, named from the model file's stem and the start timestamp,
\* in that file.
C15_SingleLogFile ==
    /\ Cardinality(logged) <= 1
    /\ LOG_FILE # DEFAULT_LOG_FILE => LOG_FILE \in RunLogFiles /\ logged \subseteq {LOG_FILE}

\* C16: every scratch directory allocated did not exist before its
\* allocation, and no two allocations under one working directory get the
\* same path.
C16_ScratchFreshAndUnique ==
    /\ \A i \in 1..Len(ret) : ~ret[i].existed
    /\ \A i \in 1..Len(ret) : \A j \in 1..Len(ret) : i # j => ret[i].name # ret[j].name

ConfigLoadFails == config_doc # "none" \/ container_config.container_type \notin {"docker", "apptainer"}

\* C17: when the configuration fails to load or the resolved model file is
\* not on the host, the run ends with a non-zero status and has started no
\* invocation and no container-runtime process.
C17_FatalBeforeAnyProcess ==
    (ConfigLoadFails \/ ~host.model_exists) =>
        /\ invocations = <<>>
        /\ runtime_procs = 0
        /\ Terminated => exit_status # Some(0)
        /\ pc # "done"

\* C18: no invocation is run twice in a run, and when an invocation has
\* exited, with either status, the loop is at the step after it.
C18_NoStepRetried ==
    /\ [](\A i \in 1..Len(invocations) : \A j \in 1..Len(invocations) : i # j => invocations[i] # invocations[j])
    /\ [][/\ pc = "run_smooth" => pc' = "stats" /\ subject_idx' = subject_idx /\ task_idx' = task_idx
          /\ pc = "run_stats" => pc' = "subject" /\ subject_idx' = subject_idx + 1 /\ task_idx' = task_idx
          /\ pc = "run_dataset" => pc' \in {"select", "cleanup"} /\ task_idx' = task_idx + 1
          /\ AtRun => Len(invocations') = Len(invocations) + 1]_vars

C18_Witness ==
    /\ pc = "smooth"
    /\ subject_idx = 2
    /\ ~success
    /\ Len(invocations) = 2
    /\ invocations[1].action = "smooth"
    /\ invocations[2].action = "stats"

\* The place of an invocation in the loop order: task, subject (the dataset
\* step after every subject), action.
TaskPos(inv) == CHOOSE t \in 1..Len(config.TASKS) : config.TASKS[t] = inv.task
SubjPos(inv) ==
    IF inv.scope = "dataset" THEN Len(task_log[TaskPos(inv)].subjects) + 1
    ELSE CHOOSE k \in 1..Len(task_log[TaskPos(inv)].subjects) : task_log[TaskPos(inv)].subjects[k] = TheValue(inv.subject)
ActionPos(inv) == IF inv.action = "smooth" THEN 1 ELSE 2
Before(a, b) ==
    \/ TaskPos(a) < TaskPos(b)
    \/ TaskPos(a) = TaskPos(b) /\ SubjPos(a) < SubjPos(b)
    \/ TaskPos(a) = TaskPos(b) /\ SubjPos(a) = SubjPos(b) /\ ActionPos(a) < ActionPos(b)
EnabledActions == (IF config.SMOOTH THEN {"smooth"} ELSE {}) \cup (IF config.STATS THEN {"stats"} ELSE {})

\* C19: the invocations run are in loop order (tasks in TASKS order, within
\* a task subject by subject, smoothing before stats, the dataset stats
\* after every subject's); a task that is over has run the enabled steps of
\* each subject it processed and, when DATASET is enabled and the task was
\* not skipped, exactly one dataset stats.
C19_FixedNestedOrder ==
    /\ \A i \in 1..Len(invocations) : \A j \in 1..Len(invocations) : i < j => Before(invocations[i], invocations[j])
    /\ \A t \in 1..MaxTasks :
          TaskFinished(t) =>
              /\ {invocations[i] : i \in {k \in InvocationsOf(t) : invocations[k].scope = "subject"}}
                    = {[task |-> config.TASKS[t], scope |-> "subject", subject |-> Some(sb), action |-> a] :
                          sb \in Range(task_log[t].processed), a \in EnabledActions}
              /\ Cardinality({i \in InvocationsOf(t) : invocations[i].scope = "dataset"})
                    = IF config.DATASET /\ task_log[t].validation = "pass" THEN 1 ELSE 0

C19_Witness ==
    /\ pc = "done"
    /\ config.SMOOTH /\ config.STATS /\ config.DATASET
    /\ host.listing # SubSeq(Labels, 1, MaxSubjects)
    /\ Len(invocations) = 14
    /\ invocations[1].subject = Some(Labels[MaxSubjects])
    /\ invocations[7].scope = "dataset"

MountFlag == IF container_config.container_type = "docker" THEN <<"-v">> ELSE <<"--bind">>
EnvFlag == IF container_config.container_type = "docker" THEN <<"-e">> ELSE <<"--env">>
HasPair(flag, value) == \E i \in 1..(Len(cmd) - 1) : cmd[i] = flag /\ cmd[i + 1] = value /\ i < ImagePos

\* C20: the command built binds the raw root to /raw and the derivatives
\* root to /derivatives, mounts the scratch directory just made at /tmp,
\* sets HOME, TMPDIR and TMP to /tmp, and ends with the image reference and
\* then the tool arguments as given.
C20_CommandShape ==
    pc = "returned" =>
        LET tool_args == stats_args(config, call.subject_label, call.task, ret)
        IN  /\ HasPair(MountFlag, PathStr(config.BIDS_DIR) \o <<":", "/raw">>)
            /\ HasPair(MountFlag, PathStr(config.DERIVATIVES_DIR) \o <<":", "/derivatives">>)
            /\ \E e \in host.tmp_entries :
                  /\ e.is_dir /\ StartsWithRun(e.name) /\ e.age = 0
                  /\ HasPair(MountFlag, PathStr(config.WD \o <<"tmp">>) \o <<"/">> \o e.name \o <<":", "/tmp">>)
            /\ HasPair(EnvFlag, <<"HOME=", "/tmp">>)
            /\ HasPair(EnvFlag, <<"TMPDIR=", "/tmp">>)
            /\ HasPair(EnvFlag, <<"TMP=", "/tmp">>)
            /\ Len(cmd) > Len(tool_args)
            /\ SubSeq(cmd, Len(cmd) - Len(tool_args), Len(cmd)) = <<Image>> \o tool_args

C20_Witness ==
    /\ pc = "returned"
    /\ container_config.container_type = "docker"
    /\ cmd[1] = <<"docker">>
    /\ cmd[Len(cmd) - Len(stats_args(config, call.subject_label, call.task, ret))] = container_config.docker_image
    /\ ret # SENTINEL

DatasetRuns(t) == {i \in InvocationsOf(t) : invocations[i].scope = "dataset"}

\* C21: a task with DATASET true whose space validation passed runs its
\* dataset-level stats whatever its subject-level steps gave, also when
\* they all failed and when the task has no subject at all; the step after
\* the last subject is the dataset step.
C21_DatasetStatsRegardlessOfSubjects ==
    /\ [](\A t \in 1..MaxTasks :
             (TaskFinished(t) /\ config.DATASET /\ task_log[t].validation = "pass") => DatasetRuns(t) # {})
    /\ [][(pc = "subject" /\ subject_idx > Len(subjects_to_process)) => pc' = "dataset" /\ task_idx' = task_idx]_vars
    /\ [][(pc = "dataset" /\ config.DATASET /\ pc' = "run_dataset") => task_idx' = task_idx /\ invocations' = invocations]_vars
    /\ [][pc = "run_dataset" =>
             invocations' = Append(invocations, [task |-> CurrentTask, scope |-> "dataset", subject |-> None, action |-> "stats"])]_vars

C21_Witness ==
    /\ pc = "done"
    /\ config.DATASET /\ config.SMOOTH /\ config.STATS
    /\ ~args.pilot /\ config.SUBJECTS = None
    /\ host.subject_dirs = {}
    /\ task_log[1].subjects = <<>>
    /\ task_log[1].validation = "pass"
    /\ Len(invocations) = Len(config.TASKS)
    /\ DatasetRuns(1) # {}

\* C22: a failing model validator does not stop the run: its result is
\* dropped, the processing loop is entered, and the stats invocations run
\* with that model.
C22_ValidatorFailureIgnored ==
    /\ [][pc = "validate_model" => pc' = "select" /\ task_idx' = 1 /\ exit_status' = None /\ invocations' = invocations]_vars
    /\ [](pc = "run_stats" => HasFlag(ToolArgs, "--model_file", get_container_model_path(model_file_path, config.DERIVATIVES_DIR)))
    /\ []((pc = "done" /\ config.STATS) =>
             \A t \in 1..Len(config.TASKS) : \A sb \in Range(task_log[t].processed) :
                 \E i \in InvocationsOf(t) : invocations[i].subject = Some(sb) /\ invocations[i].action = "stats")

C22_Witness ==
    /\ ~run_command(validate_json(host.model_valid))
    /\ pc = "done"
    /\ exit_status = Some(0)
    /\ \E i \in 1..Len(invocations) : invocations[i].action = "stats" /\ invocations[i].scope = "subject"
    /\ \E i \in 1..Len(invocations) : invocations[i].action = "stats" /\ invocations[i].scope = "dataset"

====
